---- MODULE Spec2Model ----
(***************************************************************************)
(* ID3.py: the ID3v1 tag codec.  A Tag object (class ID3) is opened on a   *)
(* file, mutated through its key interface, and written back by write().   *)
(* Python values are modelled with their type, because the code's          *)
(* behaviour depends on it: bytes(7) is seven NUL bytes, bytes(None)       *)
(* raises TypeError, and a str has no decode().                            *)
(***************************************************************************)
EXTENDS Integers, Sequences, FiniteSets, TLC

\* ------------------------------------------------------------------------
\* Python values: a kind and a payload (a sequence of byte values or code
\* points; an int n is carried as <<n>>).
PyBytes(s) == [k |-> "bytes", v |-> s]
PyStr(s) == [k |-> "str", v |-> s]
PyInt(n) == [k |-> "int", v |-> <<n>>]
PyNone == [k |-> "none", v |-> <<>>]

\* b' ' * n, and more generally a byte repeated n times
Rep(c, n) == [i \in 1..n |-> c]

\* the outcome of a call: the object afterwards and the exception raised
\* ("" when the call returned normally)
Res(o, e) == [o |-> o, exc |-> e]

\* sequencing of statements: the rest runs only if nothing was raised
Then(r, F(_)) == IF r.exc # "" THEN r ELSE F(r.o)

\* dictionary store d[k] = v
Put(d, k, v) == [x \in (DOMAIN d) \cup {k} |-> IF x = k THEN v ELSE d[x]]

\* the empty dictionary {}
EmptyDict == [x \in {} |-> PyNone]

\* ------------------------------------------------------------------------
\* Byte and text literals of the source
TAG == <<84, 65, 71>>                 \* b'TAG'
UnknownGenre == <<85,110,107,110,111,119,110,32,71,101,110,114,101>> \* b"Unknown Genre"
Whitespace == {32, 9, 10, 13, 11, 12} \* string.whitespace
RecordLen == 128
TextLen == 30
YearLen == 4
GenreUnknown == 255

genres ==
  <<
    <<66,108,117,101,115>>, \* 0 Blues
    <<67,108,97,115,115,105,99,32,82,111,99,107>>, \* 1 Classic Rock
    <<67,111,117,110,116,114,121>>, \* 2 Country
    <<68,97,110,99,101>>, \* 3 Dance
    <<68,105,115,99,111>>, \* 4 Disco
    <<70,117,110,107>>, \* 5 Funk
    <<71,114,117,110,103,101>>, \* 6 Grunge
    <<72,105,112,45,72,111,112>>, \* 7 Hip-Hop
    <<74,97,122,122>>, \* 8 Jazz
    <<77,101,116,97,108>>, \* 9 Metal
    <<78,101,119,32,65,103,101>>, \* 10 New Age
    <<79,108,100,105,101,115>>, \* 11 Oldies
    <<79,116,104,101,114>>, \* 12 Other
    <<80,111,112>>, \* 13 Pop
    <<82,38,66>>, \* 14 R&B
    <<82,97,112>>, \* 15 Rap
    <<82,101,103,103,97,101>>, \* 16 Reggae
    <<82,111,99,107>>, \* 17 Rock
    <<84,101,99,104,110,111>>, \* 18 Techno
    <<73,110,100,117,115,116,114,105,97,108>>, \* 19 Industrial
    <<65,108,116,101,114,110,97,116,105,118,101>>, \* 20 Alternative
    <<83,107,97>>, \* 21 Ska
    <<68,101,97,116,104,32,77,101,116,97,108>>, \* 22 Death Metal
    <<80,114,97,110,107,115>>, \* 23 Pranks
    <<83,111,117,110,100,116,114,97,99,107>>, \* 24 Soundtrack
    <<69,117,114,111,45,84,101,99,104,110,111>>, \* 25 Euro-Techno
    <<65,109,98,105,101,110,116>>, \* 26 Ambient
    <<84,114,105,112,45,72,111,112>>, \* 27 Trip-Hop
    <<86,111,99,97,108>>, \* 28 Vocal
    <<74,97,122,122,43,70,117,110,107>>, \* 29 Jazz+Funk
    <<70,117,115,105,111,110>>, \* 30 Fusion
    <<84,114,97,110,99,101>>, \* 31 Trance
    <<67,108,97,115,115,105,99,97,108>>, \* 32 Classical
    <<73,110,115,116,114,117,109,101,110,116,97,108>>, \* 33 Instrumental
    <<65,99,105,100>>, \* 34 Acid
    <<72,111,117,115,101>>, \* 35 House
    <<71,97,109,101>>, \* 36 Game
    <<83,111,117,110,100,32,67,108,105,112>>, \* 37 Sound Clip
    <<71,111,115,112,101,108>>, \* 38 Gospel
    <<78,111,105,115,101>>, \* 39 Noise
    <<65,108,116,46,32,82,111,99,107>>, \* 40 Alt. Rock
    <<66,97,115,115>>, \* 41 Bass
    <<83,111,117,108>>, \* 42 Soul
    <<80,117,110,107>>, \* 43 Punk
    <<83,112,97,99,101>>, \* 44 Space
    <<77,101,100,105,116,97,116,105,118,101>>, \* 45 Meditative
    <<73,110,115,116,114,117,109,46,32,80,111,112>>, \* 46 Instrum. Pop
    <<73,110,115,116,114,117,109,46,32,82,111,99,107>>, \* 47 Instrum. Rock
    <<69,116,104,110,105,99>>, \* 48 Ethnic
    <<71,111,116,104,105,99>>, \* 49 Gothic
    <<68,97,114,107,119,97,118,101>>, \* 50 Darkwave
    <<84,101,99,104,110,111,45,73,110,100,117,115,116,46>>, \* 51 Techno-Indust.
    <<69,108,101,99,116,114,111,110,105,99>>, \* 52 Electronic
    <<80,111,112,45,70,111,108,107>>, \* 53 Pop-Folk
    <<69,117,114,111,100,97,110,99,101>>, \* 54 Eurodance
    <<68,114,101,97,109>>, \* 55 Dream
    <<83,111,117,116,104,101,114,110,32,82,111,99,107>>, \* 56 Southern Rock
    <<67,111,109,101,100,121>>, \* 57 Comedy
    <<67,117,108,116>>, \* 58 Cult
    <<71,97,110,103,115,116,97>>, \* 59 Gangsta
    <<84,111,112,32,52,48>>, \* 60 Top 40
    <<67,104,114,105,115,116,105,97,110,32,82,97,112>>, \* 61 Christian Rap
    <<80,111,112,47,70,117,110,107>>, \* 62 Pop/Funk
    <<74,117,110,103,108,101>>, \* 63 Jungle
    <<78,97,116,105,118,101,32,65,109,101,114,105,99,97,110>>, \* 64 Native American
    <<67,97,98,97,114,101,116>>, \* 65 Cabaret
    <<78,101,119,32,87,97,118,101>>, \* 66 New Wave
    <<80,115,121,99,104,97,100,101,108,105,99>>, \* 67 Psychadelic
    <<82,97,118,101>>, \* 68 Rave
    <<83,104,111,119,116,117,110,101,115>>, \* 69 Showtunes
    <<84,114,97,105,108,101,114>>, \* 70 Trailer
    <<76,111,45,70,105>>, \* 71 Lo-Fi
    <<84,114,105,98,97,108>>, \* 72 Tribal
    <<65,99,105,100,32,80,117,110,107>>, \* 73 Acid Punk
    <<65,99,105,100,32,74,97,122,122>>, \* 74 Acid Jazz
    <<80,111,108,107,97>>, \* 75 Polka
    <<82,101,116,114,111>>, \* 76 Retro
    <<77,117,115,105,99,97,108>>, \* 77 Musical
    <<82,111,99,107,32,38,32,82,111,108,108>>, \* 78 Rock & Roll
    <<72,97,114,100,32,82,111,99,107>>, \* 79 Hard Rock
    <<70,111,108,107>>, \* 80 Folk
    <<70,111,108,107,47,82,111,99,107>>, \* 81 Folk/Rock
    <<78,97,116,105,111,110,97,108,32,70,111,108,107>>, \* 82 National Folk
    <<83,119,105,110,103>>, \* 83 Swing
    <<70,117,115,105,111,110>>, \* 84 Fusion
    <<66,101,98,111,98>>, \* 85 Bebob
    <<76,97,116,105,110>>, \* 86 Latin
    <<82,101,118,105,118,97,108>>, \* 87 Revival
    <<67,101,108,116,105,99>>, \* 88 Celtic
    <<66,108,117,101,103,114,97,115,115>>, \* 89 Bluegrass
    <<65,118,97,110,116,103,97,114,100,101>>, \* 90 Avantgarde
    <<71,111,116,104,105,99,32,82,111,99,107>>, \* 91 Gothic Rock
    <<80,114,111,103,114,101,115,115,46,32,82,111,99,107>>, \* 92 Progress. Rock
    <<80,115,121,99,104,97,100,101,108,46,32,82,111,99,107>>, \* 93 Psychadel. Rock
    <<83,121,109,112,104,111,110,105,99,32,82,111,99,107>>, \* 94 Symphonic Rock
    <<83,108,111,119,32,82,111,99,107>>, \* 95 Slow Rock
    <<66,105,103,32,66,97,110,100>>, \* 96 Big Band
    <<67,104,111,114,117,115>>, \* 97 Chorus
    <<69,97,115,121,32,76,105,115,116,101,110,105,110,103>>, \* 98 Easy Listening
    <<65,99,111,117,115,116,105,99>>, \* 99 Acoustic
    <<72,117,109,111,117,114>>, \* 100 Humour
    <<83,112,101,101,99,104>>, \* 101 Speech
    <<67,104,97,110,115,111,110>>, \* 102 Chanson
    <<79,112,101,114,97>>, \* 103 Opera
    <<67,104,97,109,98,101,114,32,77,117,115,105,99>>, \* 104 Chamber Music
    <<83,111,110,97,116,97>>, \* 105 Sonata
    <<83,121,109,112,104,111,110,121>>, \* 106 Symphony
    <<66,111,111,116,121,32,66,97,115,115>>, \* 107 Booty Bass
    <<80,114,105,109,117,115>>, \* 108 Primus
    <<80,111,114,110,32,71,114,111,111,118,101>>, \* 109 Porn Groove
    <<83,97,116,105,114,101>>, \* 110 Satire
    <<83,108,111,119,32,74,97,109>>, \* 111 Slow Jam
    <<67,108,117,98>>, \* 112 Club
    <<84,97,110,103,111>>, \* 113 Tango
    <<83,97,109,98,97>>, \* 114 Samba
    <<70,111,108,107,108,111,114,101>>, \* 115 Folklore
    <<66,97,108,108,97,100>>, \* 116 Ballad
    <<80,111,119,101,114,32,66,97,108,108,97,100>>, \* 117 Power Ballad
    <<82,104,121,116,104,109,105,99,32,83,111,117,108>>, \* 118 Rhythmic Soul
    <<70,114,101,101,115,116,121,108,101>>, \* 119 Freestyle
    <<68,117,101,116>>, \* 120 Duet
    <<80,117,110,107,32,82,111,99,107>>, \* 121 Punk Rock
    <<68,114,117,109,32,83,111,108,111>>, \* 122 Drum Solo
    <<65,32,67,97,112,101,108,108,97>>, \* 123 A Capella
    <<69,117,114,111,45,72,111,117,115,101>>, \* 124 Euro-House
    <<68,97,110,99,101,32,72,97,108,108>>, \* 125 Dance Hall
    <<71,111,97>>, \* 126 Goa
    <<68,114,117,109,32,38,32,66,97,115,115>>, \* 127 Drum & Bass
    <<67,108,117,98,45,72,111,117,115,101>>, \* 128 Club-House
    <<72,97,114,100,99,111,114,101>>, \* 129 Hardcore
    <<84,101,114,114,111,114>>, \* 130 Terror
    <<73,110,100,105,101>>, \* 131 Indie
    <<66,114,105,116,80,111,112>>, \* 132 BritPop
    <<78,101,103,101,114,112,117,110,107>>, \* 133 Negerpunk
    <<80,111,108,115,107,32,80,117,110,107>>, \* 134 Polsk Punk
    <<66,101,97,116>>, \* 135 Beat
    <<67,104,114,105,115,116,105,97,110,32,71,97,110,103,115,116,97,32,82,97,112>>, \* 136 Christian Gangsta Rap
    <<72,101,97,118,121,32,77,101,116,97,108>>, \* 137 Heavy Metal
    <<66,108,97,99,107,32,77,101,116,97,108>>, \* 138 Black Metal
    <<67,114,111,115,115,111,118,101,114>>, \* 139 Crossover
    <<67,111,110,116,101,109,112,111,114,97,114,121,32,67,104,114,105,115,116,105,97,110>>, \* 140 Contemporary Christian
    <<67,104,114,105,115,116,105,97,110,32,82,111,99,107>>, \* 141 Christian Rock
    <<77,101,114,101,110,103,117,101>>, \* 142 Merengue
    <<83,97,108,115,97>>, \* 143 Salsa
    <<84,104,114,97,115,104,32,77,101,116,97,108>>, \* 144 Thrash Metal
    <<65,110,105,109,101>>, \* 145 Anime
    <<74,112,111,112>>, \* 146 Jpop
    <<83,121,110,116,104,112,111,112>> \* 147 Synthpop
  >>

\* ------------------------------------------------------------------------
\* Conversions

\* str.encode(): UTF-8 of code points below 2048
RECURSIVE Encode(_)
Encode(s) ==
  IF s = <<>> THEN <<>>
  ELSE LET c == Head(s) IN
       (IF c < 128 THEN <<c>> ELSE <<192 + (c \div 64), 128 + (c % 64)>>)
       \o Encode(Tail(s))

\* bytes.decode(): UTF-8; exc is "UnicodeDecodeError" on a malformed sequence
RECURSIVE Decode(_)
Decode(b) ==
  IF b = <<>> THEN [exc |-> "", v |-> <<>>]
  ELSE LET c == Head(b) IN
    IF c < 128 THEN
      LET r == Decode(Tail(b)) IN [exc |-> r.exc, v |-> <<c>> \o r.v]
    ELSE IF c >= 194 /\ c < 224 /\ Len(b) >= 2 /\ b[2] >= 128 /\ b[2] < 192 THEN
      LET r == Decode(Tail(Tail(b))) IN
      [exc |-> r.exc, v |-> <<(c - 192) * 64 + (b[2] - 128)>> \o r.v]
    ELSE [exc |-> "UnicodeDecodeError", v |-> <<>>]

\* str.lower() on the Latin-1 range
LowerChar(c) ==
  IF (c >= 65 /\ c <= 90) \/ (c >= 192 /\ c <= 222 /\ c # 215) THEN c + 32 ELSE c
Lower(s) == [i \in 1..Len(s) |-> LowerChar(s[i])]

\* int.from_bytes(b, "big")
\* the big-endian value of a byte string without leading NUL bytes
RECURSIVE BigEndian(_)
BigEndian(b) ==
  IF b = <<>> THEN 0 ELSE BigEndian(SubSeq(b, 1, Len(b) - 1)) * 256 + b[Len(b)]

\* int.from_bytes(b, "big"): leading NUL bytes do not count
FromBytes(b) ==
  LET nz == {i \in 1..Len(b) : b[i] # 0} IN
  IF nz = {} THEN 0
  ELSE BigEndian(SubSeq(b, CHOOSE i \in nz : \A j \in nz : i <= j, Len(b)))

\* bytes(value): a copy of a bytes object, n NUL bytes for an int n >= 0
py_bytes(value) ==
  CASE value.k = "bytes" -> [exc |-> "", v |-> value.v]
    [] value.k = "int" ->
         IF value.v[1] < 0 THEN [exc |-> "ValueError", v |-> <<>>]
         ELSE [exc |-> "", v |-> Rep(0, value.v[1])]
    [] OTHER -> [exc |-> "TypeError", v |-> <<>>]

\* locale.atoi(v) of a str of decimal digits; anything else raises
IsDigits(s) == s # <<>> /\ \A i \in 1..Len(s) : s[i] >= 48 /\ s[i] <= 57
RECURSIVE DigitsValue(_)
DigitsValue(s) ==
  IF s = <<>> THEN 0 ELSE DigitsValue(SubSeq(s, 1, Len(s) - 1)) * 10 + (s[Len(s)] - 48)
atoi(v) ==
  IF v.k = "str" /\ IsDigits(v.v) THEN [exc |-> "", n |-> DigitsValue(v.v)]
  ELSE IF v.k = "str" THEN [exc |-> "ValueError", n |-> 0]
  ELSE [exc |-> "TypeError", n |-> 0]

\* ------------------------------------------------------------------------
\* Module functions

\* lengthen without the slice string[:num_spaces]
lengthenNoSlice(string, num_spaces) ==
  string \o Rep(32, num_spaces - Len(string))

lengthen(string, num_spaces) ==
  LET s == SubSeq(string, 1, IF Len(string) < num_spaces THEN Len(string) ELSE num_spaces)
  IN s \o Rep(32, num_spaces - Len(s))

RECURSIVE strip_padding(_)
strip_padding(s) ==
  IF Len(s) > 0 /\ s[Len(s)] \in Whitespace \cup {0}
  THEN strip_padding(SubSeq(s, 1, Len(s) - 1))
  ELSE s

\* ------------------------------------------------------------------------
\* class ID3

FieldNames == {"title", "artist", "album", "year", "comment", "track", "genre"}
Keys == {"TITLE", "ARTIST", "ALBUM", "YEAR", "COMMENT", "TRACKNUMBER", "GENRE"}
TextKeys == {"TITLE", "ARTIST", "ALBUM", "YEAR", "COMMENT"}

\* str(name).upper() and str(k).lower() on the names the class uses
UpperName == [title |-> "TITLE", artist |-> "ARTIST", album |-> "ALBUM",
              year |-> "YEAR", comment |-> "COMMENT", track |-> "TRACK",
              genre |-> "GENRE"]
LowerName == [TITLE |-> "title", ARTIST |-> "artist", ALBUM |-> "album",
              YEAR |-> "year", COMMENT |-> "comment"]

\* truth value of a Python object in a condition
Truthy(x) ==
  CASE x.k = "none" -> FALSE
    [] x.k = "int" -> x.v[1] # 0
    [] OTHER -> x.v # <<>>

tupleize(self, s) ==
  IF self.as_tuple = 1 /\ s.k \notin {"tuple"} THEN [k |-> "tuple", v |-> s.v] ELSE s

legal_genre(genre) ==
  IF genre.k = "int" /\ 0 <= genre.v[1] /\ genre.v[1] < Len(genres) THEN 1 ELSE 0

\* the for loop of find_genre over the entries lo .. hi-1 (0-based): the
\* value of i at the break, hi if the loop runs to its end.  The range is
\* scanned in table order, first half before second half.
RECURSIVE GenreLoop(_, _, _)
GenreLoop(lo, hi, find_me) ==
  IF lo >= hi THEN hi
  ELSE IF hi = lo + 1 THEN (IF Lower(genres[lo + 1]) = find_me THEN lo ELSE hi)
  ELSE LET mid == (lo + hi) \div 2
           i == GenreLoop(lo, mid, find_me)
       IN IF i < mid THEN i ELSE GenreLoop(mid, hi, find_me)

\* find_genre that answers len(genres) instead of -1 when nothing matches
find_genreNoSentinel(genre_to_find) ==
  GenreLoop(0, Len(genres), Lower(genre_to_find.v))

find_genre(genre_to_find) ==
  LET find_me == Lower(genre_to_find.v)
      i == GenreLoop(0, Len(genres), find_me)
  IN IF i = Len(genres) THEN -1 ELSE i

setup_dict(self) ==
  LET d1 == IF Truthy(self.title) THEN Put(EmptyDict, "TITLE", tupleize(self, self.title)) ELSE EmptyDict
      d2 == IF Truthy(self.artist) THEN Put(d1, "ARTIST", tupleize(self, self.artist)) ELSE d1
      d3 == IF Truthy(self.album) THEN Put(d2, "ALBUM", tupleize(self, self.album)) ELSE d2
      d4 == IF Truthy(self.year) THEN Put(d3, "YEAR", tupleize(self, self.year)) ELSE d3
      d5 == IF Truthy(self.comment) THEN Put(d4, "COMMENT", tupleize(self, self.comment)) ELSE d4
      d6 == IF legal_genre(self.genre) = 1
            THEN Put(d5, "GENRE", tupleize(self, PyStr(genres[self.genre.v[1] + 1])))
            ELSE Put(d5, "GENRE", tupleize(self, PyBytes(UnknownGenre)))
      b == py_bytes(self.track)
  IN IF Truthy(self.track)
     THEN IF b.exc # "" THEN Res([self EXCEPT !.d = d6], b.exc)
          ELSE Res([self EXCEPT !.d = Put(d6, "TRACKNUMBER", tupleize(self, PyBytes(b.v)))], "")
     ELSE Res([self EXCEPT !.d = d6], "")

\* a __setattr__ that leaves the two flags alone
MarkedNot(self) == self

\* "self.__dict__['modified'] = 1; self.__dict__['has_tag'] = 1"
Marked(self) == [self EXCEPT !.modified = 1, !.has_tag = 1]

\* __setattr__: every assignment self.name = value goes through it
setattr(self, name, value) ==
  IF name \in FieldNames THEN
    LET s1 == Marked(self)
        b == py_bytes(value)
    IN IF name = "track" /\ value.k # "none" THEN
         IF b.exc # "" THEN Res(s1, b.exc)
         ELSE Res([s1 EXCEPT !.d = Put(s1.d, "TRACKNUMBER", tupleize(s1, PyBytes(b.v))),
                             ![name] = PyBytes(b.v)], "")
       ELSE
         LET s2 == IF name = "genre" THEN
                     IF legal_genre(value) = 1
                     THEN [s1 EXCEPT !.d = Put(s1.d, "GENRE", tupleize(s1, PyStr(genres[value.v[1] + 1])))]
                     ELSE [s1 EXCEPT !.d = Put(s1.d, "GENRE", tupleize(s1, PyBytes(UnknownGenre)))]
                   ELSE [s1 EXCEPT !.d = Put(s1.d, UpperName[name], tupleize(s1, value))]
         IN IF b.exc # "" THEN Res(s2, b.exc)
            ELSE Res([s2 EXCEPT ![name] = PyBytes(b.v)], "")
  ELSE Res([self EXCEPT ![name] = value], "")

\* a run of assignments self.n1 = v1; self.n2 = v2; ... (stops at the first raise)
RECURSIVE SetAttrs(_, _)
SetAttrs(self, assignments) ==
  IF assignments = <<>> THEN Res(self, "")
  ELSE Then(setattr(self, assignments[1][1], assignments[1][2]),
            LAMBDA o : SetAttrs(o, Tail(assignments)))

\* zero without the closing setup_dict()
zeroFieldsOnly(self) ==
  SetAttrs(self, << <<"title", PyBytes(<<>>)>>, <<"artist", PyBytes(<<>>)>>,
                    <<"album", PyBytes(<<>>)>>, <<"year", PyBytes(<<>>)>>,
                    <<"comment", PyBytes(<<>>)>>, <<"track", PyBytes(<<>>)>>,
                    <<"genre", PyInt(GenreUnknown)>> >>)

zero(self) ==
  Then(SetAttrs(self, << <<"title", PyBytes(<<>>)>>, <<"artist", PyBytes(<<>>)>>,
                         <<"album", PyBytes(<<>>)>>, <<"year", PyBytes(<<>>)>>,
                         <<"comment", PyBytes(<<>>)>>, <<"track", PyBytes(<<>>)>>,
                         <<"genre", PyInt(GenreUnknown)>> >>),
       LAMBDA o : setup_dict(o))

delete(self) ==
  Then(zero(self),
       LAMBDA o : Res([o EXCEPT !.delete_tag = 1, !.has_tag = 0], ""))

\* the attributes before __init__ has assigned them
Blank ==
  [d |-> EmptyDict, as_tuple |-> 0, can_reopen |-> 1, delete_tag |-> 0,
   modified |-> 0, has_tag |-> 0, had_tag |-> 0,
   title |-> PyNone, artist |-> PyNone, album |-> PyNone, year |-> PyNone,
   comment |-> PyNone, track |-> PyNone, genre |-> PyNone]

\* the track rule of __init__ applied to the 30 comment bytes just read
SplitTrack(self) ==
  LET c == self.comment.v IN
  IF c[Len(c) - 1] = 0 /\ c[Len(c)] # 0
  THEN SetAttrs(self, << <<"track", PyInt(c[Len(c)])>>,
                         <<"comment", PyBytes(SubSeq(c, 1, Len(c) - 2))>> >>)
  ELSE setattr(self, "track", PyNone)

\* the trimming of the five text fields in __init__
StripFields(self) ==
  SetAttrs(self, << <<"title", PyBytes(strip_padding(self.title.v))>>,
                    <<"artist", PyBytes(strip_padding(self.artist.v))>>,
                    <<"album", PyBytes(strip_padding(self.album.v))>>,
                    <<"year", PyBytes(strip_padding(self.year.v))>>,
                    <<"comment", PyBytes(strip_padding(self.comment.v))>> >>)

\* the IOError of the seek swallowed: nothing raised
CantOpenIgnored == ""

\* "except IOError as msg: ... raise InvalidTagError("Can't open ..")"
CantOpen == "InvalidTagError"

\* an __init__ without its closing "self.modified = 0"
ParsedDirty(self) == Res(self, "")

\* the closing "self.modified = 0" of __init__
Parsed(self) == Res([self EXCEPT !.modified = 0], "")

\* ID3(file): file is the content of the named file; the name is opened 'rb'
ID3_init(file) ==
  Then(zero(Blank), LAMBDA z :
    LET s1 == [z EXCEPT !.modified = 0, !.has_tag = 0, !.had_tag = 0] IN
    IF Len(file) < RecordLen THEN Res(s1, CantOpen)
    ELSE
      LET rec == SubSeq(file, Len(file) - RecordLen + 1, Len(file)) IN
      IF SubSeq(rec, 1, 3) # TAG THEN Parsed(s1)
      ELSE
        Then(SetAttrs([s1 EXCEPT !.has_tag = 1, !.had_tag = 1],
                      << <<"title", PyBytes(SubSeq(rec, 4, 33))>>,
                         <<"artist", PyBytes(SubSeq(rec, 34, 63))>>,
                         <<"album", PyBytes(SubSeq(rec, 64, 93))>>,
                         <<"year", PyBytes(SubSeq(rec, 94, 97))>>,
                         <<"comment", PyBytes(SubSeq(rec, 98, 127))>> >>),
        LAMBDA a : Then(SplitTrack(a),
        LAMBDA b : Then(setattr(b, "genre", PyBytes(SubSeq(rec, 128, 128))),
        LAMBDA c : Then(StripFields(c),
        LAMBDA e : Then(setup_dict(e),
        LAMBDA f : Parsed(f)))))))

\* __getitem__: self.d[k].decode()
getitem(self, k) ==
  IF k \notin DOMAIN self.d THEN [exc |-> "KeyError", v |-> PyNone]
  ELSE IF self.d[k].k # "bytes" THEN [exc |-> "AttributeError", v |-> PyNone]
  ELSE LET r == Decode(self.d[k].v) IN
       IF r.exc # "" THEN [exc |-> r.exc, v |-> PyNone]
       ELSE [exc |-> "", v |-> PyStr(r.v)]

\* __setitem__
setitem(self, k, v) ==
  IF k \notin Keys THEN Res(self, "")
  ELSE
    Then(
      IF k = "TRACKNUMBER" THEN
        LET n == IF v.k = "int" THEN [exc |-> "", n |-> v.v[1]] ELSE atoi(v) IN
        IF n.exc # "" THEN Res(self, n.exc)
        ELSE Then(setattr(self, "track", PyInt(n.n)),
                  LAMBDA o : Res([o EXCEPT !.d = Put(o.d, k, tupleize(o, v))], ""))
      ELSE IF k = "GENRE" THEN
        IF v.k = "int" THEN
          Then(setattr(self, "genre", v),
               LAMBDA o :
                 IF legal_genre(v) = 1
                 THEN Res([o EXCEPT !.d = Put(o.d, k, tupleize(o, PyStr(genres[v.v[1] + 1])))], "")
                 ELSE Res([o EXCEPT !.d = Put(o.d, k, tupleize(o, PyBytes(UnknownGenre)))], ""))
        ELSE
          Then(setattr(self, "genre", PyInt(find_genre(v))),
               LAMBDA o :
                 IF o.genre = PyInt(-1)
                 THEN Then(setattr(o, "genre", PyInt(GenreUnknown)),
                           LAMBDA p : Res([p EXCEPT !.d = Put(p.d, k, tupleize(p, PyBytes(UnknownGenre)))], ""))
                 ELSE Res([o EXCEPT !.d = Put(o.d, k, tupleize(o, v))], ""))
      ELSE
        IF v.k # "str" THEN Res(self, "AttributeError")
        ELSE Res([self EXCEPT ![LowerName[k]] = PyBytes(Encode(v.v)),
                              !.d = Put(self.d, k, tupleize(self, PyBytes(Encode(v.v))))], ""),
      LAMBDA o : Res([o EXCEPT !.modified = 1, !.has_tag = 1], ""))

\* ------------------------------------------------------------------------
\* The file

\* file.write(data) at offset pos (0-based): overwrites, and extends past the end
Overwrite(file, pos, data) ==
  SubSeq(file, 1, pos) \o data \o SubSeq(file, pos + Len(data) + 1, Len(file))

\* file.read(n) at offset pos: at most n bytes, fewer at the end of the file
Read(file, pos, n) ==
  SubSeq(file, pos + 1, IF pos + n <= Len(file) THEN pos + n ELSE Len(file))

\* no bytes left in the handle's buffer
NoBuf == [pos |-> 0, data |-> <<>>]

\* closing a handle writes out what its buffer still holds
Flush(file, buf) == Overwrite(file, buf.pos, buf.data)

\* always self.file.seek(0, 2)
SeekPosEnd(self, file) == Len(file)

\* self.file.seek(-128, 2) when had_tag, else self.file.seek(0, 2)
SeekPos(self, file) ==
  IF self.had_tag = 1 THEN Len(file) - RecordLen ELSE Len(file)

\* the outcome of write(): object, exception, file content, unflushed bytes
WRes(o, e, file, buf) == [o |-> o, exc |-> e, file |-> file, buf |-> buf]

\* the bytes written before the comment field
RecordHead(self) ==
  TAG \o lengthen(self.title.v, TextLen) \o lengthen(self.artist.v, TextLen)
      \o lengthen(self.album.v, TextLen) \o lengthen(self.year.v, YearLen)

\* the genre reset before the genre byte is written
GenreForWrite(self) ==
  LET g == FromBytes(self.genre.v) IN
  IF 0 < g /\ g < 255 THEN setattr(self, "genre", PyInt(GenreUnknown)) ELSE Res(self, "")

\* write() without the test of self.modified
IsModifiedAlways(self) == TRUE

\* "if self.modified:"
IsModified(self) == self.modified # 0

\* write() without the re-read of the magic
StillTaggedUnchecked(file, pos) == TRUE

\* self.file.read(3) == b"TAG" at the offset of the record
StillTagged(file, pos) == Read(file, pos, 3) = TAG

\* a failed write() that cleared self.modified and raised nothing
FailedSilently(self, file) ==
  WRes([self EXCEPT !.modified = 0], "", file, NoBuf)

\* "except IOError as msg: raise InvalidTagError(..)": nothing was flushed,
\* and the else clause that clears self.modified does not run
Failed(self, file) == WRes(self, "InvalidTagError", file, NoBuf)

\* a write() that truncates only while no field was set after delete()
DeletePathUnlessSet(self) ==
  self.delete_tag = 1 /\ self.had_tag = 1 /\ self.has_tag = 0

\* "if self.delete_tag and self.had_tag:"
DeletePath(self) == self.delete_tag = 1 /\ self.had_tag = 1

write(self, file) ==
  IF ~IsModified(self) THEN WRes(self, "", file, NoBuf)
  ELSE IF self.had_tag = 1 /\ Len(file) < RecordLen
  THEN Failed(self, file)
  ELSE
    LET pos == SeekPos(self, file) IN
    IF DeletePath(self) THEN
      WRes([self EXCEPT !.had_tag = 0, !.modified = 0], "", SubSeq(file, 1, pos), NoBuf)
    ELSE IF self.has_tag = 1 THEN
      IF self.had_tag = 1 /\ ~StillTagged(file, pos)
      THEN Failed(self, file)
      ELSE
        LET comment == lengthen(self.comment.v, TextLen)
            t == FromBytes(self.track.v)
        IN IF 0 < t /\ t < 255
           THEN WRes(self, "TypeError", file, [pos |-> pos, data |-> RecordHead(self)])
           ELSE LET r == GenreForWrite(self) IN
                WRes([r.o EXCEPT !.had_tag = 1, !.modified = 0], "",
                     Overwrite(file, pos, RecordHead(self) \o comment \o r.o.genre.v),
                     NoBuf)
    ELSE WRes([self EXCEPT !.modified = 0], "", file, NoBuf)

\* write() as a caller sees it: opening the file again drops the previous
\* handle, whose buffer then goes to disk
WriteCall(self, file, buf) ==
  IF IsModified(self) THEN write(self, Flush(file, buf))
  ELSE WRes(self, "", file, buf)

\* ------------------------------------------------------------------------
\* Bounds and inputs

MaxOps == 2          \* assignments, delete() calls and alterations in one run
MaxOpens == 2        \* Tag objects constructed in one run
MaxFileLen == 600    \* write() is not called on a longer file

Audio(n) == [i \in 1..n |-> i % 256]

\* a 128-byte record as another tagger would have left it
Record(title, artist, album, year, comment, genre) ==
  TAG \o title \o artist \o album \o year \o comment \o <<genre>>

NulPad(s, n) == s \o Rep(0, n - Len(s))
SpacePad(s, n) == s \o Rep(32, n - Len(s))

TestSong == <<84,101,115,116,32,83,111,110,103>>   \* "Test Song"
Band == <<66,97,110,100>>                          \* "Band"
Album == <<65,108,98>>                             \* "Alb"
Y1999 == <<49,57,57,57>>                           \* "1999"
Note == <<110,111,116,101>>                        \* "note"

\* a record with track 7 and genre 17, fields padded with NULs
RecTrack == Record(NulPad(TestSong, 30), NulPad(Band, 30), SpacePad(Album, 30),
                   Y1999, SpacePad(Note, 28) \o <<0, 7>>, 17)
\* a record with track 3 and genre 0
RecGenre0 == Record(SpacePad(TestSong, 30), SpacePad(Band, 30), SpacePad(<<>>, 30),
                    SpacePad(<<>>, 4), NulPad(<<>>, 28) \o <<0, 3>>, 0)
\* a v1.0 record: no track, comment padded with spaces
RecNoTrack == Record(SpacePad(TestSong, 30), SpacePad(Band, 30), SpacePad(Album, 30),
                     Y1999, SpacePad(Note, 30), 17)

InitFiles ==
  { Audio(200), Audio(50), Audio(100) \o RecTrack, Audio(100) \o RecGenre0,
    Audio(100) \o RecNoTrack }

\* the assignments tag[k] = v that a caller makes
SetInputs ==
  { <<"TITLE", PyStr(TestSong)>>,
    <<"ARTIST", PyStr(Rep(90, 40))>>,
    <<"ALBUM", PyStr(<<233>>)>>,
    <<"YEAR", PyStr(Y1999 \o <<57>>)>>,
    <<"COMMENT", PyStr(Note)>>,
    <<"TRACKNUMBER", PyInt(7)>>, <<"TRACKNUMBER", PyStr(<<49, 50>>)>>,
    <<"GENRE", PyInt(17)>>, <<"GENRE", PyInt(0)>>, <<"GENRE", PyInt(1)>>,
    <<"GENRE", PyStr(<<114,111,99,107>>)>>, <<"GENRE", PyStr(<<122,122>>)>>,
    <<"FOO", PyStr(Note)>> }

\* the assignments tag.name = value that a caller makes
AttrInputs ==
  { <<"title", PyBytes(<<>>)>>, <<"title", PyBytes(TestSong)>>,
    <<"comment", PyStr(Note)>>,
    <<"genre", PyInt(17)>>,
    <<"track", PyBytes(<<7>>)>>, <<"track", PyNone>> }

\* what another process does to the last 128 bytes of the file
ExternalKinds == {"magic", "field"}

\* str.upper() on the Latin-1 range, for the spellings a caller may use
UpperChar(c) ==
  IF (c >= 97 /\ c <= 122) \/ (c >= 224 /\ c <= 254 /\ c # 247) THEN c - 32 ELSE c
Upper(s) == [i \in 1..Len(s) |-> UpperChar(s[i])]

\* the strings find_genre is called with: every table name as spelled, in
\* lower case and in upper case, and strings that are no table name
FindInputs ==
  {genres[i] : i \in 1..Len(genres)}
    \cup {Lower(genres[i]) : i \in 1..Len(genres)}
    \cup {Upper(genres[i]) : i \in 1..Len(genres)}
    \cup { <<>>, <<122, 122>>, <<82, 111, 99>>, <<82, 111, 99, 107, 32>>,
           <<32, 82, 111, 99, 107>>, <<82, 111, 99, 107, 115>> }

\* no call of find_genre made
NoLookup == [q |-> <<>>, r |-> -2, called |-> FALSE]

\* ------------------------------------------------------------------------
\* State

VARIABLES
  file,       \* the content of the named file on disk
  self,       \* the attributes of the ID3 object
  pc,         \* "closed": no object; "open": constructed; "failed": the
              \* constructor raised and the object awaits collection
  exc,        \* the exception the last call raised, "" if none
  op,         \* the last operation
  unflushed,  \* bytes written to the handle but not yet on disk
  file0,      \* the content of the file when the object was constructed
  ext,        \* how another process altered the file since then
  warned,     \* the exception raised inside __del__ and ignored, "" if none
  nops, nopens,
  lookup      \* a call of find_genre: its argument q and its result r

vars == <<file, self, pc, exc, op, unflushed, file0, ext, warned, nops, nopens,
          lookup>>

Init ==
  /\ file \in InitFiles
  /\ self = Blank
  /\ pc = "closed"
  /\ exc = ""
  /\ op = "init"
  /\ unflushed = NoBuf
  /\ file0 = <<>>
  /\ ext = "none"
  /\ warned = ""
  /\ nops = 0
  /\ nopens = 0
  /\ lookup = NoLookup

\* tag = ID3(filename)
Open ==
  /\ pc = "closed"
  /\ nopens < MaxOpens
  /\ LET r == ID3_init(file) IN
       /\ self' = r.o
       /\ exc' = r.exc
       /\ pc' = IF r.exc = "" THEN "open" ELSE "failed"
  /\ op' = "open"
  /\ file0' = file
  /\ ext' = "none"
  /\ warned' = ""
  /\ nopens' = nopens + 1
  /\ UNCHANGED <<file, unflushed, nops, lookup>>

\* tag[k] = v
SetItem ==
  /\ pc = "open"
  /\ nops < MaxOps
  /\ \E in \in SetInputs :
       LET r == setitem(self, in[1], in[2]) IN
         /\ self' = r.o
         /\ exc' = r.exc
  /\ op' = "set"
  /\ nops' = nops + 1
  /\ UNCHANGED <<file, pc, unflushed, file0, ext, warned, nopens, lookup>>

\* tag.name = value
SetAttr ==
  /\ pc = "open"
  /\ nops < MaxOps
  /\ \E in \in AttrInputs :
       LET r == setattr(self, in[1], in[2]) IN
         /\ self' = r.o
         /\ exc' = r.exc
  /\ op' = "setattr"
  /\ nops' = nops + 1
  /\ UNCHANGED <<file, pc, unflushed, file0, ext, warned, nopens, lookup>>

\* tag.delete()
Delete ==
  /\ pc = "open"
  /\ nops < MaxOps
  /\ LET r == delete(self) IN
       /\ self' = r.o
       /\ exc' = r.exc
  /\ op' = "delete"
  /\ nops' = nops + 1
  /\ UNCHANGED <<file, pc, unflushed, file0, ext, warned, nopens, lookup>>

\* tag.write()
Write ==
  /\ pc = "open"
  /\ Len(file) <= MaxFileLen
  /\ LET r == WriteCall(self, file, unflushed) IN
       /\ self' = r.o
       /\ exc' = r.exc
       /\ file' = r.file
       /\ unflushed' = r.buf
  /\ op' = "write"
  /\ UNCHANGED <<pc, file0, ext, warned, nops, nopens, lookup>>

\* tag.write() while the file cannot be opened for writing: open(.., 'r+b')
\* raises IOError
WriteIOError ==
  /\ pc = "open"
  /\ IsModified(self)
  /\ self.can_reopen = 1
  /\ LET r == Failed(self, Flush(file, unflushed)) IN
       /\ self' = r.o
       /\ exc' = r.exc
       /\ file' = r.file
       /\ unflushed' = r.buf
  /\ op' = "write_ioerror"
  /\ UNCHANGED <<pc, file0, ext, warned, nops, nopens, lookup>>

\* a __del__ that does not call write()
DelNoWrite ==
  /\ pc \in {"open", "failed"}
  /\ warned' = ""
  /\ file' = Flush(file, unflushed)
  /\ exc' = ""
  /\ self' = Blank
  /\ unflushed' = NoBuf
  /\ pc' = "closed"
  /\ op' = "del"
  /\ UNCHANGED <<file0, ext, nops, nopens, lookup>>

\* the object is discarded: __del__ calls write(), what it raises is ignored,
\* and the handle is closed
Del ==
  /\ pc \in {"open", "failed"}
  /\ LET r == WriteCall(self, file, unflushed) IN
       /\ warned' = r.exc
       /\ file' = Flush(r.file, r.buf)
  /\ exc' = ""
  /\ self' = Blank
  /\ unflushed' = NoBuf
  /\ pc' = "closed"
  /\ op' = "del"
  /\ UNCHANGED <<file0, ext, nops, nopens, lookup>>

\* another process alters the last 128 bytes of the file: it destroys the
\* magic, or changes one byte of the title field
External ==
  /\ pc = "open"
  /\ ext = "none"
  /\ nops < MaxOps
  /\ Len(file) >= RecordLen
  /\ \E kind \in ExternalKinds :
       LET pos == Len(file) - RecordLen IN
         /\ file' = IF kind = "magic"
                    THEN Overwrite(file, pos, <<0>>)
                    ELSE Overwrite(file, pos + 3, <<(file[pos + 4] + 1) % 256>>)
         /\ ext' = kind
  /\ op' = "external"
  /\ nops' = nops + 1
  /\ UNCHANGED <<self, pc, exc, unflushed, file0, warned, nopens, lookup>>

\* the key interface, with another process and I/O failures around
Next == Open \/ SetItem \/ Delete \/ Write \/ WriteIOError \/ Del \/ External

Spec == Init /\ [][Next]_vars

\* tag.find_genre(q)
FindGenre ==
  /\ ~lookup.called
  /\ lookup' = [q |-> lookup.q, r |-> find_genre(PyStr(lookup.q)), called |-> TRUE]
  /\ UNCHANGED <<file, self, pc, exc, op, unflushed, file0, ext, warned, nops, nopens>>

\* an opened Tag on which find_genre is about to be called with some string
InitFind ==
  /\ file = Audio(200)
  /\ self = ID3_init(Audio(200)).o
  /\ pc = "open"
  /\ exc = ""
  /\ op = "open"
  /\ unflushed = NoBuf
  /\ file0 = Audio(200)
  /\ ext = "none"
  /\ warned = ""
  /\ nops = 0
  /\ nopens = 1
  /\ \E q \in FindInputs : lookup = [q |-> q, r |-> -2, called |-> FALSE]

SpecFind == InitFind /\ [][FindGenre]_vars

\* both interfaces, the Tag alone with the file
NextAttr == Open \/ SetItem \/ SetAttr \/ Delete \/ Write \/ Del

SpecAttr == Init /\ [][NextAttr]_vars

\* a Tag on which delete() has just been called, right after it was opened
InitDeleted ==
  /\ file \in {f \in InitFiles : ID3_init(f).exc = ""}
  /\ self = delete(ID3_init(file).o).o
  /\ pc = "open"
  /\ exc = ""
  /\ op = "delete"
  /\ unflushed = NoBuf
  /\ file0 = file
  /\ ext = "none"
  /\ warned = ""
  /\ nops = 0
  /\ nopens = 1
  /\ lookup = NoLookup

\* the key interface, the Tag alone with the file
NextKeys == Open \/ SetItem \/ Delete \/ Write \/ Del

SpecDeleted == InitDeleted /\ [][NextKeys]_vars

\* ------------------------------------------------------------------------
\* Properties

\* the last 128 bytes of f start with "TAG"
HasRecord(f) ==
  Len(f) >= RecordLen /\ SubSeq(f, Len(f) - RecordLen + 1, Len(f) - RecordLen + 3) = TAG

\* the record bytes of f
RecordOf(f) == SubSeq(f, Len(f) - RecordLen + 1, Len(f))

\* the fixed width of a text key's field
MaxLenOf == [TITLE |-> TextLen, ARTIST |-> TextLen, ALBUM |-> TextLen,
             YEAR |-> YearLen, COMMENT |-> TextLen]

\* a value within its maximum length, without NUL and without trailing whitespace
CleanValue(b, n) ==
  /\ Len(b) <= n
  /\ \A i \in 1..Len(b) : b[i] # 0
  /\ (b # <<>> => b[Len(b)] \notin Whitespace)

\* a write() has just returned normally after emitting a record
RecordWritten ==
  /\ pc = "open" /\ op = "write" /\ exc = "" /\ ext = "none"
  /\ self.has_tag = 1 /\ self.had_tag = 1 /\ self.delete_tag = 0
  /\ nops > 0

\* the decimal string of a natural number
RECURSIVE Decimal(_)
Decimal(n) == IF n < 10 THEN <<48 + n>> ELSE Decimal(n \div 10) \o <<48 + (n % 10)>>

\* C1: after the text keys are set to values within their maximum length,
\* without NUL and without trailing whitespace, and write() has returned,
\* opening the file again succeeds and its key view returns those values.
C1_RoundTrip ==
  RecordWritten =>
    LET r == ID3_init(file) IN
      /\ r.exc = ""
      /\ \A k \in TextKeys :
           (k \in DOMAIN self.d /\ self.d[k].k = "bytes"
              /\ CleanValue(self.d[k].v, MaxLenOf[k]))
           => getitem(r.o, k) = getitem(self, k)

\* C2: write() directly after delete() removes exactly the last 128 bytes of
\* the file when a record existed on disk, and leaves the file as it is when
\* none existed.
C2_DeleteTruncation ==
  [][(pc = "open" /\ op = "delete" /\ op' = "write")
       => /\ exc' = ""
          /\ IF self.had_tag = 1
             THEN /\ Len(file') = Len(file) - RecordLen
                  /\ file' = SubSeq(file, 1, Len(file) - RecordLen)
             ELSE file' = file]_vars

\* delete() then write() on a Tag opened from a file with a record: the
\* record is gone
C2_Witness ==
  /\ pc = "open" /\ op = "write" /\ exc = "" /\ nops = 1
  /\ self.delete_tag = 1 /\ self.had_tag = 0
  /\ HasRecord(file0) /\ Len(file) = Len(file0) - RecordLen

\* C3 as stated: whatever another process changed in the last 128 bytes of a
\* file that had a record at open, write() on the dirty Tag raises
\* InvalidTagError and leaves the file as that process left it.
C3_StaleAnyChange ==
  [][(pc = "open" /\ op' = "write" /\ self.modified = 1
        /\ HasRecord(file0) /\ ext # "none")
       => (exc' = "InvalidTagError" /\ file' = file)]_vars

\* C3 amended: when another process has destroyed the magic of the last 128
\* bytes of a file that had a record at open, and delete() was not called,
\* write() on the dirty Tag raises InvalidTagError, leaves the file as that
\* process left it, and the Tag stays dirty.
C3_StaleMagic ==
  [][(pc = "open" /\ op' = "write" /\ self.modified = 1
        /\ HasRecord(file0) /\ ext = "magic" /\ self.delete_tag = 0)
       => (exc' = "InvalidTagError" /\ file' = file /\ self'.modified = 1)]_vars

\* a write() was refused after another process destroyed the magic
C3_Witness ==
  /\ pc = "open" /\ op = "write" /\ exc = "InvalidTagError"
  /\ HasRecord(file0) /\ ext = "magic" /\ self.delete_tag = 0
  /\ ~HasRecord(file) /\ nops > 0

\* the number of bytes that precede the record in the file as it was opened
AudioLen(f) == IF HasRecord(f) THEN Len(f) - RecordLen ELSE Len(f)

\* C4: while only the Tag touches the file, the bytes that preceded the
\* record when the file was opened are still there, unchanged.
C4_AudioPreserved ==
  (pc = "open" /\ ext = "none")
    => /\ Len(file) >= AudioLen(file0)
       /\ SubSeq(file, 1, AudioLen(file0)) = SubSeq(file0, 1, AudioLen(file0))

\* C5: write() on a Tag that is not dirty changes no byte of the file, raises
\* nothing and leaves the object as it is.
C5_NoOpWrite ==
  [][(pc = "open" /\ op' = "write" /\ self.modified = 0)
       => (file' = file /\ exc' = "" /\ self' = self /\ unflushed' = unflushed)]_vars

\* write() directly after opening a file with a record
C5_Witness ==
  /\ pc = "open" /\ op = "write" /\ exc = "" /\ nops = 0
  /\ HasRecord(file0) /\ file = file0 /\ self.modified = 0

\* C6: opening a file whose last 128 bytes start with "TAG" succeeds; the
\* text fields are the trimmed record fields, and the last two comment bytes
\* decide between a track number with a 28-byte comment and no track with a
\* 30-byte comment.
C6_ReaderParse ==
  (op = "open" /\ HasRecord(file0))
    => LET rec == RecordOf(file0)
           c == SubSeq(rec, 98, 127)
       IN /\ exc = ""
          /\ self.title.v = strip_padding(SubSeq(rec, 4, 33))
          /\ self.artist.v = strip_padding(SubSeq(rec, 34, 63))
          /\ self.album.v = strip_padding(SubSeq(rec, 64, 93))
          /\ self.year.v = strip_padding(SubSeq(rec, 94, 97))
          /\ IF c[29] = 0 /\ c[30] # 0
             THEN /\ self.track = PyInt(c[30])
                  /\ self.comment.v = strip_padding(SubSeq(c, 1, 28))
             ELSE /\ self.track = PyNone
                  /\ self.comment.v = strip_padding(c)

\* the track number a caller asked for through tag['TRACKNUMBER'] = v
AskedTrack(self_) ==
  IF self_.d["TRACKNUMBER"].k = "int" THEN self_.d["TRACKNUMBER"].v[1]
  ELSE DigitsValue(self_.d["TRACKNUMBER"].v)

\* C7: after TRACKNUMBER is set to t in 1..254 and write() has returned,
\* opening the file again yields TRACKNUMBER as the decimal string of t.
C7_TrackEmbedding ==
  (RecordWritten /\ "TRACKNUMBER" \in DOMAIN self.d
     /\ self.d["TRACKNUMBER"].k \in {"int", "str"}
     /\ AskedTrack(self) >= 1 /\ AskedTrack(self) <= 254)
    => LET r == ID3_init(file) IN
         /\ r.exc = ""
         /\ getitem(r.o, "TRACKNUMBER")
              = [exc |-> "", v |-> PyStr(Decimal(AskedTrack(self)))]

\* C8: after GENRE is set to a legal index or to a table name and write() has
\* returned, opening the file again yields GENRE as the table name.
C8_GenreRoundTrip ==
  (RecordWritten /\ self.d["GENRE"].k = "str" /\ find_genre(self.d["GENRE"]) >= 0)
    => LET r == ID3_init(file) IN
         /\ r.exc = ""
         /\ getitem(r.o, "GENRE")
              = [exc |-> "", v |-> PyStr(genres[find_genre(self.d["GENRE"]) + 1])]

\* the first n bytes of a value, or the value followed by spaces up to n bytes
Fitted(b, n) == IF Len(b) > n THEN SubSeq(b, 1, n) ELSE b \o Rep(32, n - Len(b))

\* the write path of write() is about to run
OnWritePath ==
  /\ pc = "open" /\ self.modified = 1 /\ self.has_tag = 1
  /\ ~(self.delete_tag = 1 /\ self.had_tag = 1)

\* C9: when write() emits a record, each text field on disk holds the first
\* max-length bytes of the value, or the value right-padded with spaces.
C9_Truncation ==
  [][(OnWritePath /\ op' = "write" /\ exc' = "")
       => LET pos == IF self.had_tag = 1 THEN Len(file) - RecordLen ELSE Len(file) IN
            /\ SubSeq(file', pos + 4, pos + 33) = Fitted(self.title.v, 30)
            /\ SubSeq(file', pos + 34, pos + 63) = Fitted(self.artist.v, 30)
            /\ SubSeq(file', pos + 64, pos + 93) = Fitted(self.album.v, 30)
            /\ SubSeq(file', pos + 94, pos + 97) = Fitted(self.year.v, 4)
            /\ SubSeq(file', pos + 98, pos + 127) = Fitted(self.comment.v, 30)]_vars

\* a record was written while ARTIST was longer than 30 bytes and YEAR longer
\* than 4
C9_Witness ==
  /\ pc = "open" /\ op = "write" /\ exc = "" /\ self.modified = 0
  /\ self.has_tag = 1 /\ self.had_tag = 1 /\ self.delete_tag = 0
  /\ Len(self.artist.v) > 30 /\ Len(self.year.v) > 4

\* C10: opening a file of at least 128 bytes whose last 128 bytes do not
\* start with "TAG" succeeds, with had_tag = 0 and a key view that is exactly
\* {GENRE: "Unknown Genre"}.
C10_NoRecordDefault ==
  (op = "open" /\ Len(file0) >= RecordLen /\ ~HasRecord(file0))
    => /\ exc = "" /\ pc = "open"
       /\ self.had_tag = 0
       /\ DOMAIN self.d = {"GENRE"}
       /\ getitem(self, "GENRE") = [exc |-> "", v |-> PyStr(UnknownGenre)]

\* a file without a record has been opened
C10_Witness ==
  /\ op = "open" /\ pc = "open" /\ exc = ""
  /\ Len(file0) >= RecordLen /\ ~HasRecord(file0)
  /\ DOMAIN self.d = {"GENRE"}

\* the text a view value shows, whatever its type
ViewText(x) ==
  CASE x.k = "bytes" -> Decode(x.v).v
    [] x.k = "int" -> IF x.v[1] >= 0 THEN Decimal(x.v[1]) ELSE <<45>> \o Decimal(-x.v[1])
    [] OTHER -> x.v

\* C11: after any key sets, attribute sets, delete() and write() that
\* returned normally, the key view contains GENRE, no key outside the seven,
\* and a text key or TRACKNUMBER only if its field is non-empty.
C11_SparseView ==
  (pc = "open" /\ exc = "")
    => /\ "GENRE" \in DOMAIN self.d
       /\ DOMAIN self.d \subseteq Keys
       /\ \A k \in TextKeys \cap DOMAIN self.d : Truthy(self[LowerName[k]])
       /\ ("TRACKNUMBER" \in DOMAIN self.d => Truthy(self.track))

\* C12: after an assignment through either interface the view agrees with
\* the fields: a text key shows the stored bytes, TRACKNUMBER the decimal
\* string of the stored track, GENRE the table name of the stored genre when
\* it is a legal index and "Unknown Genre" otherwise.
C12_DualSurface ==
  (pc = "open" /\ exc = "" /\ op \in {"set", "setattr"})
    => /\ \A k \in TextKeys \cap DOMAIN self.d :
            ViewText(self.d[k]) = Decode(self[LowerName[k]].v).v
       /\ ("TRACKNUMBER" \in DOMAIN self.d
             => /\ self.track.k = "int"
                /\ ViewText(self.d["TRACKNUMBER"]) = Decimal(self.track.v[1]))
       /\ ViewText(self.d["GENRE"])
            = IF legal_genre(self.genre) = 1
              THEN genres[self.genre.v[1] + 1] ELSE UnknownGenre

\* C13: tag['GENRE'] = s for a string s that matches no table entry raises
\* nothing, stores 255 as the genre, shows "Unknown Genre" and marks the Tag
\* dirty and present.
C13_UnknownGenre ==
  [][(pc = "open" /\ op' = "set"
        /\ \E in \in SetInputs :
             /\ in[1] = "GENRE" /\ in[2].k = "str" /\ find_genre(in[2]) = -1
             /\ self' = setitem(self, in[1], in[2]).o
             /\ exc' = setitem(self, in[1], in[2]).exc)
       => /\ exc' = ""
          /\ self'.genre \in {PyInt(GenreUnknown), PyBytes(<<GenreUnknown>>)}
          /\ ViewText(self'.d["GENRE"]) = UnknownGenre
          /\ self'.modified = 1 /\ self'.has_tag = 1]_vars

\* C14: opening a file shorter than 128 bytes raises an error (IOError or
\* InvalidTagError) from the constructor, yields no Tag, and the file stays
\* as it is, also when the failed object is discarded.
C14_ShortSource ==
  /\ []((op = "open" /\ Len(file0) < RecordLen)
          => (exc \in {"IOError", "InvalidTagError"} /\ pc = "failed"
                /\ file = file0))
  /\ [][(pc = "failed" /\ Len(file0) < RecordLen /\ op' = "del")
          => (file' = file /\ warned' = "" /\ exc' = "")]_vars

\* a short file was opened, the failed object discarded
C14_Witness ==
  /\ op = "del" /\ pc = "closed" /\ nopens >= 1
  /\ Len(file0) < RecordLen /\ file = file0

\* the I/O of write() is about to fail: the file cannot be opened for
\* writing, is too short for the seek, or no longer shows the magic
IoFails ==
  \/ op' = "write_ioerror"
  \/ /\ op' = "write" /\ self.modified = 1 /\ self.had_tag = 1
     /\ \/ Len(file) < RecordLen
        \/ (self.delete_tag = 0 /\ self.has_tag = 1 /\ ~HasRecord(file))

\* C15: an I/O failure during write() is raised as InvalidTagError, and a
\* write() that raised leaves the Tag dirty.
C15_WriteFailure ==
  [][(pc = "open" /\ op' \in {"write", "write_ioerror"})
       => /\ (IoFails => exc' = "InvalidTagError")
          /\ (exc' # "" => (exc' = "InvalidTagError" /\ self'.modified = 1))]_vars

\* write() failed because the file could not be opened for writing
C15_Witness ==
  /\ pc = "open" /\ op = "write_ioerror" /\ exc = "InvalidTagError"
  /\ self.modified = 1 /\ nops > 0

\* the record bytes write() emits before the genre
RecordBody(self_) ==
  TAG \o Fitted(self_.title.v, 30) \o Fitted(self_.artist.v, 30)
      \o Fitted(self_.album.v, 30) \o Fitted(self_.year.v, 4)
      \o Fitted(self_.comment.v, 30)

\* C16: discarding a Tag raises nothing to the caller; a Tag that is not
\* dirty leaves the file alone; a dirty one is committed as write() commits
\* it (the record truncated on the delete path, the record bytes put at the
\* record offset on the write path), and a failed commit changes nothing.
C16_DiscardWrite ==
  [][(pc = "open" /\ op' = "del" /\ unflushed = NoBuf)
       => /\ exc' = ""
          /\ (self.modified = 0 => (file' = file /\ warned' = ""))
          /\ (warned' # "" => file' = file)
          /\ (self.modified = 1 /\ self.delete_tag = 1 /\ self.had_tag = 1
                 /\ warned' = ""
               => file' = SubSeq(file, 1, Len(file) - RecordLen))
          /\ (OnWritePath /\ warned' = ""
               => LET pos == IF self.had_tag = 1 THEN Len(file) - RecordLen
                             ELSE Len(file)
                  IN /\ SubSeq(file', 1, pos) = SubSeq(file, 1, pos)
                     /\ Read(file', pos, 127) = RecordBody(self))]_vars

\* a dirty Tag was discarded, its write failed, and nothing was raised
C16_Witness ==
  /\ op = "del" /\ pc = "closed" /\ exc = ""
  /\ warned = "InvalidTagError" /\ ext = "magic" /\ nops > 0

\* the strings "rock", "ROCK", "Rock" and "Fusion"
RockSpellings == { <<114,111,99,107>>, <<82,79,67,75>>, <<82,111,99,107>> }
Fusion == <<70,117,115,105,111,110>>

C18_FixedRecordSize ==
  [][(OnWritePath /\ op' = "write" /\ exc' = "")
       => /\ HasRecord(file')
          /\ Len(file') = IF self.had_tag = 1 THEN Len(file)
                          ELSE Len(file) + RecordLen]_vars

\* C19: when a Tag opened from a record has a text field changed and is
\* written, the genre byte of the record on disk is still the one it had.
C19_GenreByte ==
  [][(OnWritePath /\ op' = "write" /\ exc' = "" /\ ext = "none"
        /\ self.had_tag = 1 /\ HasRecord(file)
        /\ self.genre = PyBytes(<<file[Len(file)]>>))
       => /\ Len(file') = Len(file)
          /\ file'[Len(file')] = file[Len(file)]]_vars

\* C20: after a write() that returned normally on a dirty Tag, modified is
\* 0, had_tag is 1 after the write path and 0 after the delete path, and
\* had_tag tells whether the file now ends with a record.
C20_PostWriteFlags ==
  [][(pc = "open" /\ op' = "write" /\ exc' = "" /\ self.modified = 1
        /\ ext = "none")
       => /\ self'.modified = 0
          /\ (OnWritePath => self'.had_tag = 1)
          /\ (self.delete_tag = 1 => self'.had_tag = 0)
          /\ (self'.had_tag = 1 <=> HasRecord(file'))]_vars

\* C21: a constructor that returned normally left modified = 0 and
\* delete_tag = 0, and had_tag = has_tag = 1 exactly when the last 128 bytes
\* of the file start with "TAG", both 0 otherwise.
C21_PostOpenFlags ==
  (op = "open" /\ pc = "open")
    => /\ exc = ""
       /\ self.modified = 0 /\ self.delete_tag = 0
       /\ self.had_tag = (IF HasRecord(file0) THEN 1 ELSE 0)
       /\ self.has_tag = self.had_tag

\* a file with a record has been opened and its fields parsed
C21_Witness ==
  /\ op = "open" /\ pc = "open" /\ HasRecord(file0)
  /\ self.had_tag = 1 /\ Truthy(self.title) /\ "TITLE" \in DOMAIN self.d

\* C22: an assignment to one of the seven fields that returns normally,
\* through tag[k] = v or tag.name = v, leaves modified = 1 and has_tag = 1
\* (no tag[k] = v for one of the seven keys ends without the two flags set);
\* tag[k] = v for any other key k leaves the whole object as it was.
C22_SettersMark ==
  [][(pc = "open" /\ op' \in {"set", "setattr"})
       => /\ (op' = "setattr" /\ exc' = ""
                => self'.modified = 1 /\ self'.has_tag = 1)
          /\ (op' = "set" /\ exc' = ""
                /\ ~(self'.modified = 1 /\ self'.has_tag = 1)
                => \A in \in {i \in SetInputs : i[1] \in Keys} :
                     LET r == setitem(self, in[1], in[2])
                     IN ~(self' = r.o /\ exc' = r.exc))
          /\ (op' = "set"
                => \A in \in {i \in SetInputs : i[1] \notin Keys} :
                     LET r == setitem(self, in[1], in[2])
                     IN (self' = r.o /\ exc' = r.exc)
                          => (self' = self /\ exc' = ""))]_vars

\* a key was assigned on a Tag opened from a file without a record
C22_Witness ==
  /\ pc = "open" /\ op = "set" /\ exc = "" /\ nops = 1
  /\ ~HasRecord(file0) /\ self.had_tag = 0
  /\ self.modified = 1 /\ self.has_tag = 1

\* C23: delete() raises nothing, leaves the five text fields empty, the
\* track absent, the genre 255, the key view {GENRE: "Unknown Genre"},
\* delete_tag = 1, has_tag = 0 and had_tag as it was, and does not touch the
\* file.
C23_DeleteEffect ==
  [][(pc = "open" /\ op' = "delete")
       => /\ exc' = ""
          /\ \A k \in TextKeys : self'[LowerName[k]] = PyBytes(<<>>)
          /\ ~Truthy(self'.track)
          /\ self'.genre \in {PyInt(GenreUnknown), PyBytes(<<GenreUnknown>>)}
          /\ DOMAIN self'.d = {"GENRE"}
          /\ ViewText(self'.d["GENRE"]) = UnknownGenre
          /\ self'.delete_tag = 1 /\ self'.has_tag = 0
          /\ self'.had_tag = self.had_tag
          /\ file' = file /\ unflushed' = unflushed]_vars

\* C24: while the Tag lives, no operation clears delete_tag once set; a
\* write() on a dirty Tag with delete_tag and had_tag set truncates the
\* record whatever was assigned since delete() and clears had_tag; a write()
\* with delete_tag set, had_tag clear and has_tag set keeps the file and
\* appends the record of the values then held.
C24_StickyDelete ==
  [][/\ (pc = "open" /\ pc' = "open" /\ self.delete_tag = 1)
          => self'.delete_tag = 1
     /\ (pc = "open" /\ op' = "write" /\ exc' = "" /\ self.modified = 1
           /\ self.delete_tag = 1 /\ self.had_tag = 1)
          => /\ file' = SubSeq(file, 1, Len(file) - RecordLen)
             /\ self'.had_tag = 0
             /\ self'.modified = 0
     /\ (pc = "open" /\ op' = "write" /\ exc' = "" /\ self.modified = 1
           /\ self.delete_tag = 1 /\ self.had_tag = 0 /\ self.has_tag = 1)
          => /\ SubSeq(file', 1, Len(file)) = file
             /\ Read(file', Len(file), 127) = RecordBody(self)
             /\ self'.had_tag = 1]_vars

\* delete(), a set and write() removed the record of the opened file; a
\* further set and write() then appended a record after the audio bytes
C24_Witness ==
  /\ pc = "open" /\ op = "write" /\ exc = "" /\ nopens = 1 /\ nops = 2
  /\ HasRecord(file0)
  /\ self.delete_tag = 1 /\ self.had_tag = 1 /\ self.has_tag = 1
  /\ self.modified = 0
  /\ SubSeq(file, 1, AudioLen(file0)) = SubSeq(file0, 1, AudioLen(file0))
  /\ Read(file, AudioLen(file0), 3) = TAG
  /\ Read(file, AudioLen(file0), 127) # SubSeq(RecordOf(file0), 1, 127)

====
